---- MODULE Spec2Model ----
(***************************************************************************)
(* Model of bot.py: the attendance tracker (on_voice_state_update and the  *)
(* JSON session store it maintains), the attendance report                 *)
(* (show_attendance, get_session_stats), the music queue engine            *)
(* (AdvancedMusicQueue), the playback commands around it (play_music,     *)
(* play_next, skip_song, stop_music) and the per-guild dict music_queues.  *)
(*                                                                         *)
(* Representation of Python values:                                        *)
(*   None                         -> <<>>  ("None" for a channel)          *)
(*   datetime.isoformat() string  -> <<"iso", t>>   (t in whole seconds)   *)
(*   any other (unparseable) text -> <<"bad">>                             *)
(*   str(timedelta)               -> <<days, hours, minutes, seconds>>     *)
(*   dict                         -> function (empty dict = <<>>)          *)
(*   list, deque                  -> sequence                              *)
(*   a queued song dict           -> its enqueue ordinal 1, 2, ... (each   *)
(*                                   play command builds a new dict whose  *)
(*                                   source object equals no other)        *)
(*   no song (None)               -> 0                                     *)
(*   f"{h}h {m}m {s}s"            -> <<h, "h", m, "m", s, "s">>            *)
(***************************************************************************)
EXTENDS Integers, Sequences, FiniteSets, TLC

\* ------------------------------------------------------------------ bounds
\* Every handled event reads datetime.now(); successive reads are strictly
\* increasing, so MaxTime also bounds the number of events handled.
MaxTime == 4

\* Songs enqueued and next() calls made on the queue of SpecQueue.
MaxSongs == 2
MaxCalls == 2

\* Songs enqueued and next() calls made in SpecPlaylist, where a playlist
\* longer than the history is played to its end.
MaxPlaylist == 51
MaxPlaylistCalls == 52

\* Sessions per user in the stores the attendance report is asked about.
MaxStatSessions == 3

\* next() calls made by play_next in SpecPlayer (its songs are bounded by
\* MaxSongs).
MaxPlayerCalls == 3

\* Voice-state events handled and queue operations made in SpecGuilds, where
\* several guilds are served at once.
MaxGuildEvents == 2
MaxGuildOps == 2

\* ------------------------------------------------------------ input sets
\* u1 is a member of both guilds, u2 of g1 only.
Guilds == {"g1", "g2"}
Users == {"u1", "u2"}
Members == {<<"g1", "u1">>, <<"g1", "u2">>, <<"g2", "u1">>}
Channels == {"c1", "c2"}

None == <<>>

NoChannel == "None"

VARIABLES
    attendance_data,   \* the global dict guild_id -> user_id -> record
    file,              \* what load_attendance_data() would return from disk
    now,               \* datetime.now() as read by the last handled event
    closes,            \* history: close operations completed per (guild, user)
    last               \* history: the last event handled and what it did

VARIABLES
    mq,                \* one AdvancedMusicQueue object
    nadded,            \* history: add() calls so far (the next song is nadded + 1)
    calls,             \* history: next() calls so far
    mlast              \* history: the last queue operation and what it returned

VARIABLES
    report             \* the answer of the last attendance command

VARIABLES
    loading,           \* play commands waiting for MusicSource.from_url()
    voice,             \* the song the voice client is playing (is_playing()), or none
    pending,           \* play_next coroutines scheduled by after callbacks, not yet
                       \* run, each with what ended the track ("end" or "skip")
    sending,           \* play_next coroutines waiting in ctx.send(): their next_song
    plast              \* history: the last playback step taken

VARIABLES
    music_queues,      \* the global dict guild id -> its AdvancedMusicQueue object,
                       \* held as a reference into objects
    objects,           \* the AdvancedMusicQueue objects constructed so far
    glast              \* history: the last operation on music_queues

attVars == <<attendance_data, file, now, closes, last>>

musicVars == <<mq, nadded, calls, mlast>>

playerVars == <<loading, voice, pending, sending, plast>>

guildVars == <<music_queues, objects, glast>>

vars == <<attendance_data, file, now, closes, last, mq, nadded, calls, mlast,
          report, loading, voice, pending, sending, plast,
          music_queues, objects, glast>>

\* ------------------------------------------------------- time and strings
IsoFormat(t) == <<"iso", t>>

CanParseIso(s) == Len(s) = 2 /\ s[1] = "iso"

FromIsoFormat(s) == s[2]

TimedeltaStr(d) ==
    << d \div 86400, (d % 86400) \div 3600, (d % 3600) \div 60, d % 60 >>

DurationSeconds(dur) == dur[1] * 86400 + dur[2] * 3600 + dur[3] * 60 + dur[4]

ChannelName(c) == <<"name", c>>

UserName(u) == <<"username", u>>

DisplayName(u) == <<"display_name", u>>

\* ---------------------------------------------------------- session store
EmptyDict == <<>>

NewUserRecord(u) ==
    [username |-> UserName(u), display_name |-> DisplayName(u), sessions |-> <<>>]

InitGuild(data, g) ==
    IF g \in DOMAIN data THEN data ELSE data @@ (g :> EmptyDict)

InitUser(data, g, u) ==
    IF u \in DOMAIN data[g] THEN data
    ELSE [data EXCEPT ![g] = @ @@ (u :> NewUserRecord(u))]

NewSession(c, timestamp) ==
    [channel_name |-> ChannelName(c), channel_id |-> c,
     join_time |-> timestamp, leave_time |-> None, duration |-> None]

OpenSessionPrepend(sessions, c, timestamp) ==
    <<NewSession(c, timestamp)>> \o sessions

OpenSession(sessions, c, timestamp) == Append(sessions, NewSession(c, timestamp))

ScanForward(sessions, c, i) ==
    LET I == {j \in 1..i : sessions[j].leave_time = None /\ sessions[j].channel_id = c}
    IN IF I = {} THEN 0 ELSE CHOOSE j \in I : \A k \in I : j <= k

RECURSIVE ScanReversed(_, _, _)
ScanReversed(sessions, c, i) ==
    IF i = 0 THEN 0
    ELSE IF sessions[i].leave_time = None /\ sessions[i].channel_id = c THEN i
    ELSE ScanReversed(sessions, c, i - 1)

FindOpen(sessions, c) == ScanReversed(sessions, c, Len(sessions))

FindAnyInChannel(sessions, c) ==
    LET I == {j \in 1..Len(sessions) : sessions[j].channel_id = c}
    IN IF I = {} THEN 0 ELSE CHOOSE j \in I : \A k \in I : j >= k

CloseFields(s, timestamp) ==
    [s EXCEPT !.leave_time = timestamp,
              !.duration = TimedeltaStr(FromIsoFormat(timestamp)
                                            - FromIsoFormat(s.join_time))]

CloseSessionAll(sessions, c, timestamp) ==
    LET i == FindOpen(sessions, c) IN
    [sessions |-> [j \in 1..Len(sessions) |->
                     IF sessions[j].leave_time = None /\ sessions[j].channel_id = c
                     THEN CloseFields(sessions[j], timestamp) ELSE sessions[j]],
     raised |-> FALSE, closed |-> i]

CloseSessionSynth(sessions, c, timestamp) ==
    LET i == FindOpen(sessions, c) IN
    IF i = 0
    THEN [sessions |-> Append(sessions, CloseFields(NewSession(c, timestamp), timestamp)),
          raised |-> FALSE, closed |-> 0]
    ELSE IF ~CanParseIso(sessions[i].join_time)
         THEN [sessions |-> [sessions EXCEPT ![i].leave_time = timestamp],
               raised |-> TRUE, closed |-> 0]
         ELSE [sessions |-> [sessions EXCEPT ![i] = CloseFields(@, timestamp)],
               raised |-> FALSE, closed |-> i]

CloseSessionReclose(sessions, c, timestamp) ==
    LET i == FindAnyInChannel(sessions, c) IN
    IF i = 0 THEN [sessions |-> sessions, raised |-> FALSE, closed |-> 0]
    ELSE [sessions |-> [sessions EXCEPT ![i] = CloseFields(@, timestamp)],
          raised |-> FALSE,
          closed |-> IF sessions[i].leave_time = None THEN i ELSE 0]

CloseSession(sessions, c, timestamp) ==
    LET i == FindOpen(sessions, c) IN
    IF i = 0 THEN [sessions |-> sessions, raised |-> FALSE, closed |-> 0]
    ELSE IF ~CanParseIso(sessions[i].join_time)
         THEN [sessions |-> [sessions EXCEPT ![i].leave_time = timestamp],
               raised |-> TRUE, closed |-> 0]
         ELSE [sessions |-> [sessions EXCEPT
                   ![i].leave_time = timestamp,
                   ![i].duration = TimedeltaStr(FromIsoFormat(timestamp)
                                      - FromIsoFormat(sessions[i].join_time))],
               raised |-> FALSE, closed |-> i]

EventKindNoCompare(before, after) ==
    IF before = NoChannel /\ after # NoChannel THEN "join"
    ELSE IF before # NoChannel /\ after = NoChannel THEN "leave"
    ELSE IF before # NoChannel /\ after # NoChannel THEN "switch"
    ELSE "same"

EventKind(before, after) ==
    IF before = NoChannel /\ after # NoChannel THEN "join"
    ELSE IF before # NoChannel /\ after = NoChannel THEN "leave"
    ELSE IF before # NoChannel /\ after # NoChannel /\ before # after THEN "switch"
    ELSE "same"

SwitchSessionNoClose(sessions, before, after, timestamp) ==
    [sessions |-> OpenSession(sessions, after, timestamp),
     raised |-> FALSE, closed |-> FindOpen(sessions, before)]

SwitchSession(sessions, before, after, timestamp) ==
    LET r == CloseSession(sessions, before, timestamp) IN
    IF r.raised THEN r
    ELSE [r EXCEPT !.sessions = OpenSession(r.sessions, after, timestamp)]

HandleSessions(sessions, before, after, timestamp) ==
    LET kind == EventKind(before, after) IN
    IF kind = "join"
    THEN [sessions |-> OpenSession(sessions, after, timestamp),
          raised |-> FALSE, closed |-> 0]
    ELSE IF kind = "leave" THEN CloseSession(sessions, before, timestamp)
    ELSE IF kind = "switch" THEN SwitchSession(sessions, before, after, timestamp)
    ELSE [sessions |-> sessions, raised |-> FALSE, closed |-> 0]

Handle(data, g, u, before, after, timestamp) ==
    LET d1 == InitUser(InitGuild(data, g), g, u)
        r  == HandleSessions(d1[g][u].sessions, before, after, timestamp)
    IN [data |-> [d1 EXCEPT ![g][u].sessions = r.sessions],
        raised |-> r.raised, closed |-> r.closed]

\* The resulting file, seen through load_attendance_data: the new store, the
\* old file when open() fails, nothing loadable when the write is cut short.
save_attendance_data(data, io) ==
    IF io = "ok" THEN data
    ELSE IF io = "open_fails" THEN file
    ELSE EmptyDict

SessionsOf(data, g, u) ==
    IF g \in DOMAIN data /\ u \in DOMAIN data[g] THEN data[g][u].sessions ELSE <<>>

\* ------------------------------------------------------ attendance report
\* int(parts[0]) of duration.split(':'): str(timedelta) of a day or more
\* starts with "1 day, ", which int() rejects.
ParsesDuration(dur) == dur[1] = 0

ParsedSeconds(dur) == dur[2] * 3600 + dur[3] * 60 + dur[4]

\* The f-strings of lines 1228-1233 (and 1181-1186, 1192-1197).
FormatSeconds(t) ==
    LET hours   == t \div 3600
        minutes == (t % 3600) \div 60
        seconds == t % 60
    IN IF hours > 0 THEN <<hours, "h", minutes, "m", seconds, "s">>
       ELSE IF minutes > 0 THEN <<minutes, "m", seconds, "s">>
       ELSE <<seconds, "s">>

RECURSIVE SumSeq(_)
SumSeq(s) == IF s = <<>> THEN 0 ELSE Head(s) + SumSeq(Tail(s))

RECURSIVE SumValues(_)
SumValues(f) ==
    IF DOMAIN f = {} THEN 0
    ELSE LET x == CHOOSE y \in DOMAIN f : TRUE
         IN f[x] + SumValues([y \in DOMAIN f \ {x} |-> f[y]])

OpenInAll(sessions) == 1..Len(sessions)

OpenIn(sessions) == {i \in 1..Len(sessions) : sessions[i].leave_time = None}

MaxSeq(s) == CHOOSE x \in {s[i] : i \in 1..Len(s)} : \A i \in 1..Len(s) : x >= s[i]

HasDuration(session) == session.duration # None

Completed(sessions) == SelectSeq(sessions, HasDuration)

\* The durations the try block of lines 1159-1167 manages to parse.
RECURSIVE ParsedDurations(_)
ParsedDurations(sessions) ==
    IF sessions = <<>> THEN <<>>
    ELSE IF ParsesDuration(Head(sessions).duration)
         THEN <<ParsedSeconds(Head(sessions).duration)>>
              \o ParsedDurations(Tail(sessions))
         ELSE ParsedDurations(Tail(sessions))

calculate_total_time(sessions) ==
    FormatSeconds(SumSeq(ParsedDurations(Completed(sessions))))

get_session_stats(sessions) ==
    IF sessions = <<>>
    THEN [total_sessions |-> 0, total_time |-> <<0, "s">>,
          avg_session |-> <<0, "s">>, longest_session |-> <<0, "s">>]
    ELSE LET completed_sessions == Completed(sessions)
             durations == ParsedDurations(completed_sessions)
         IN [total_sessions |-> Len(sessions),
             completed_sessions |-> Len(completed_sessions),
             active_sessions |-> Cardinality(OpenIn(sessions)),
             total_time |-> calculate_total_time(sessions),
             avg_session |-> IF durations # <<>>
                             THEN FormatSeconds(SumSeq(durations) \div Len(durations))
                             ELSE <<0, "s">>,
             longest_session |-> IF durations # <<>>
                                 THEN FormatSeconds(MaxSeq(durations))
                                 ELSE <<0, "s">>]

\* The keys of stats the report embed reads (lines 1104-1109).
ReportKeys ==
    {"total_sessions", "completed_sessions", "active_sessions", "total_time",
     "avg_session", "longest_session"}

NoMention == "none"

\* What the attendance command answers; stats is the dict it got from
\* get_session_stats (kept also when building the embed raised KeyError,
\* which line 1117 catches and answers with "Invalid user mention").
show_attendance(data, g, user_mention) ==
    IF g \notin DOMAIN data
    THEN [outcome |-> "no_data", guild |-> g, user |-> user_mention, stats |-> <<>>]
    ELSE IF user_mention # NoMention
    THEN IF user_mention \in DOMAIN data[g]
         THEN LET stats == get_session_stats(data[g][user_mention].sessions) IN
              [outcome |-> IF ReportKeys \subseteq DOMAIN stats
                           THEN "report" ELSE "invalid_mention",
               guild |-> g, user |-> user_mention, stats |-> stats]
         ELSE [outcome |-> "no_user_data", guild |-> g, user |-> user_mention,
               stats |-> <<>>]
    ELSE [outcome |-> "summary", guild |-> g, user |-> user_mention,
          stats |-> [total_users |-> Cardinality(DOMAIN data[g]),
                     total_sessions |->
                         SumValues([u \in DOMAIN data[g] |-> Len(data[g][u].sessions)]),
                     currently_active |->
                         SumValues([u \in DOMAIN data[g] |->
                                      Cardinality(OpenIn(data[g][u].sessions))])]]

\* ------------------------------------------------------ AdvancedMusicQueue
NoSong == 0

HistoryMaxLen == 50

LoopModes == {"off", "song", "queue"}

\* The modes a caller may pass to set_loop_mode, one of them invalid.
ModeInputs == LoopModes \cup {"shuffle"}

NewQueue ==
    [queue |-> <<>>, history |-> <<>>, current |-> NoSong, loop_mode |-> "off",
     shuffle |-> FALSE, original_queue |-> <<>>]

\* deque(maxlen=50).append: a full deque drops its leftmost item first.
HistoryAppendUnbounded(history, song) == Append(history, song)

HistoryAppend(history, song) ==
    IF Len(history) < HistoryMaxLen THEN Append(history, song)
    ELSE Append(Tail(history), song)

\* list.pop(i) and list.insert(i, x) with a 0-based index i.
PopIndex(s, i) == SubSeq(s, 1, i) \o SubSeq(s, i + 2, Len(s))

InsertIndex(s, i, x) == SubSeq(s, 1, i) \o <<x>> \o SubSeq(s, i + 1, Len(s))

\* deque.remove(x): the first item equal to x goes.
RemoveHead(s, x) == Tail(s)

RemoveValue(s, x) ==
    LET i == CHOOSE k \in 1..Len(s) : s[k] = x /\ \A j \in 1..(k - 1) : s[j] # x
    IN PopIndex(s, i - 1)

\* The orders random.shuffle can leave a list in.
Shuffles(s) ==
    LET n == Len(s)
        Bijections == {f \in [1..n -> 1..n] : \A i, j \in 1..n : i # j => f[i] # f[j]}
    IN {[i \in 1..n |-> s[f[i]]] : f \in Bijections}

addStoresBefore(q, song) ==
    [q EXCEPT !.queue = Append(q.queue, song),
              !.original_queue = IF q.shuffle /\ q.original_queue = <<>>
                                 THEN q.queue ELSE @]

add(q, song) ==
    LET queue == Append(q.queue, song) IN
    [q EXCEPT !.queue = queue,
              !.original_queue = IF q.shuffle /\ q.original_queue = <<>>
                                 THEN queue ELSE @]

\* next() under loop mode "song" hands out the current song again.
ReplaysNever(q) == FALSE

Replays(q) == q.loop_mode = "song" /\ q.current # NoSong

\* The history and the queue of next() once the finished song is recorded
\* and an exhausted queue is refilled under loop mode "queue".
Recorded(q) ==
    IF q.current # NoSong THEN HistoryAppend(q.history, q.current) ELSE q.history

Refills(q) == q.loop_mode = "queue" /\ q.queue = <<>> /\ Recorded(q) # <<>>

Refilled(q) == IF Refills(q) THEN Recorded(q) ELSE q.queue

\* The positions random.choice can pick in next().
Picks(q) == IF q.shuffle /\ Refilled(q) # <<>> THEN 1..Len(Refilled(q)) ELSE {1}

\* deque.popleft(): the item taken and the items left.
PopRight(s) == [song |-> s[Len(s)], rest |-> SubSeq(s, 1, Len(s) - 1)]

PopLeft(s) == [song |-> Head(s), rest |-> Tail(s)]

next(q, pick) ==
    IF Replays(q)
    THEN [q |-> q, ret |-> q.current]
    ELSE LET history == IF Refills(q) THEN <<>> ELSE Recorded(q)
             queue   == Refilled(q)
         IN IF queue # <<>>
            THEN IF q.shuffle
                 THEN LET random_song == queue[pick] IN
                      [q |-> [q EXCEPT !.queue = RemoveValue(queue, random_song),
                                       !.history = history,
                                       !.current = random_song],
                       ret |-> random_song]
                 ELSE [q |-> [q EXCEPT !.queue = PopLeft(queue).rest,
                                       !.history = history,
                                       !.current = PopLeft(queue).song],
                       ret |-> PopLeft(queue).song]
            ELSE [q |-> [q EXCEPT !.history = history], ret |-> NoSong]

clearKeepsHistory(q) ==
    [q EXCEPT !.queue = <<>>, !.original_queue = <<>>, !.current = NoSong]

clear(q) ==
    [q EXCEPT !.queue = <<>>, !.history = <<>>, !.original_queue = <<>>,
              !.current = NoSong]

\* list.pop(index) on its own also takes a negative index, counted from the end.
removeFromEnd(q, index) ==
    IF -Len(q.queue) <= index /\ index < Len(q.queue)
    THEN LET i == IF index < 0 THEN index + Len(q.queue) ELSE index IN
         [q |-> [q EXCEPT !.queue = PopIndex(q.queue, i)], ret |-> q.queue[i + 1]]
    ELSE [q |-> q, ret |-> NoSong]

remove(q, index) ==
    IF 0 <= index /\ index < Len(q.queue)
    THEN [q |-> [q EXCEPT !.queue = PopIndex(q.queue, index)],
          ret |-> q.queue[index + 1]]
    ELSE [q |-> q, ret |-> NoSong]

move(q, from_index, to_index) ==
    IF /\ 0 <= from_index /\ from_index < Len(q.queue)
       /\ 0 <= to_index /\ to_index < Len(q.queue)
    THEN [q |-> [q EXCEPT !.queue = InsertIndex(PopIndex(q.queue, from_index),
                                                to_index, q.queue[from_index + 1])],
          ret |-> TRUE]
    ELSE [q |-> q, ret |-> FALSE]

\* The order stored when shuffle is turned on, and the queue once it is
\* turned off again.
StoredShuffled(q, shuffled) == shuffled

Stored(q, shuffled) == q.queue

RestoredNever(q) == q.queue

Restored(q) == IF q.original_queue # <<>> THEN q.original_queue ELSE q.queue

toggle_shuffle(q, shuffled) ==
    IF ~q.shuffle
    THEN [q |-> [q EXCEPT !.shuffle = TRUE, !.original_queue = Stored(q, shuffled),
                          !.queue = shuffled],
          ret |-> TRUE]
    ELSE [q |-> [q EXCEPT !.shuffle = FALSE, !.queue = Restored(q),
                          !.original_queue = <<>>],
          ret |-> FALSE]

set_loop_mode(q, mode) ==
    IF mode \in LoopModes
    THEN [q |-> [q EXCEPT !.loop_mode = mode], ret |-> TRUE]
    ELSE [q |-> q, ret |-> FALSE]

\* ------------------------------------------------------------------ state
InitMusic ==
    /\ mq = NewQueue
    /\ nadded = 0
    /\ calls = 0
    /\ mlast = [op |-> "none", ret |-> NoSong, flag |-> FALSE,
                old |-> <<>>, cur |-> NoSong]

NoReport == [outcome |-> "none", guild |-> "none", user |-> "none", stats |-> <<>>]

InitReport == report = NoReport

InitPlayer ==
    /\ loading = 0
    /\ voice = NoSong
    /\ pending = <<>>
    /\ sending = <<>>
    /\ plast = [op |-> "none", song |-> NoSong, via |-> "none", e |-> "None",
                stopped |-> FALSE]

InitGuilds ==
    /\ music_queues = EmptyDict
    /\ objects = <<>>
    /\ glast = [op |-> "none", g |-> "none", n |-> 0]

Init ==
    /\ InitMusic
    /\ InitReport
    /\ InitPlayer
    /\ InitGuilds
    /\ attendance_data = EmptyDict
    /\ file = EmptyDict
    /\ now = 0
    /\ closes = [g \in Guilds |-> [u \in Users |-> 0]]
    /\ last = [kind |-> "none", g |-> "g1", u |-> "u1", raised |-> FALSE, closed |-> 0]

on_voice_state_update(g, u, before, after, io) ==
    /\ now < MaxTime
    /\ now' = now + 1
    /\ LET r == Handle(attendance_data, g, u, before, after, IsoFormat(now')) IN
        /\ attendance_data' = r.data
        /\ file' = IF r.raised THEN file ELSE save_attendance_data(r.data, io)
        /\ closes' = IF r.closed # 0 THEN [closes EXCEPT ![g][u] = @ + 1] ELSE closes
        /\ last' = [kind |-> EventKind(before, after), g |-> g, u |-> u,
                    raised |-> r.raised, closed |-> r.closed]
    /\ UNCHANGED <<musicVars, report, playerVars, guildVars>>

\* The events below are handled with a healthy disk (io = "ok").
Join ==
    \E m \in Members, c \in Channels :
        on_voice_state_update(m[1], m[2], NoChannel, c, "ok")

Leave ==
    \E m \in Members, c \in Channels :
        on_voice_state_update(m[1], m[2], c, NoChannel, "ok")

Switch ==
    \E m \in Members, b \in Channels, a \in Channels :
        /\ a # b
        /\ on_voice_state_update(m[1], m[2], b, a, "ok")

SameChannel ==
    \E m \in Members, c \in Channels :
        on_voice_state_update(m[1], m[2], c, c, "ok")

Next == Join \/ Leave \/ Switch \/ SameChannel

Spec == Init /\ [][Next]_vars

\* ------------------------------------------- start from a file left on disk
load_attendance_data(f) == f

LegacySession(c, join_time) ==
    [channel_name |-> ChannelName(c), channel_id |-> c,
     join_time |-> join_time, leave_time |-> None, duration |-> None]

LoadedFile(join_time) ==
    "g1" :> ("u1" :> [username |-> UserName("u1"), display_name |-> DisplayName("u1"),
                      sessions |-> <<LegacySession("c1", join_time)>>])

LoadedFiles == {LoadedFile(IsoFormat(0)), LoadedFile(<<"bad">>)}

InitLoaded ==
    /\ InitMusic
    /\ InitReport
    /\ InitPlayer
    /\ InitGuilds
    /\ file \in LoadedFiles
    /\ attendance_data = load_attendance_data(file)
    /\ now = 0
    /\ closes = [g \in Guilds |-> [u \in Users |-> 0]]
    /\ last = [kind |-> "none", g |-> "g1", u |-> "u1", raised |-> FALSE, closed |-> 0]

SpecLoaded == InitLoaded /\ [][Next]_vars

\* ------------------------------------------------ the attendance command
\* The bot starts from a file earlier runs left: user u1 of guild g1 with up
\* to MaxStatSessions sessions, some still open, the others 10 s, 20 s, 30 s
\* or a day and 10 s long, one after the other.
StatKinds == {<<"open">>} \cup {<<"closed", d>> : d \in {10, 20, 30, 86410}}

RECURSIVE StatSessions(_, _)
StatSessions(kinds, t) ==
    IF kinds = <<>> THEN <<>>
    ELSE IF Head(kinds)[1] = "open"
         THEN <<NewSession("c1", IsoFormat(t))>> \o StatSessions(Tail(kinds), t + 1)
         ELSE <<CloseFields(NewSession("c1", IsoFormat(t)), IsoFormat(t + Head(kinds)[2]))>>
              \o StatSessions(Tail(kinds), t + Head(kinds)[2] + 1)

StatFile(kinds) ==
    "g1" :> ("u1" :> [username |-> UserName("u1"), display_name |-> DisplayName("u1"),
                      sessions |-> StatSessions(kinds, 0)])

StatFiles ==
    {StatFile(kinds) : kinds \in UNION {[1..n -> StatKinds] : n \in 0..MaxStatSessions}}

InitStats ==
    /\ InitMusic
    /\ InitReport
    /\ InitPlayer
    /\ InitGuilds
    /\ file \in StatFiles
    /\ attendance_data = load_attendance_data(file)
    /\ now = 0
    /\ closes = [g \in Guilds |-> [u \in Users |-> 0]]
    /\ last = [kind |-> "none", g |-> "g1", u |-> "u1", raised |-> FALSE, closed |-> 0]

ShowAttendance ==
    /\ \E g \in Guilds, user_mention \in Users \cup {NoMention} :
          report' = show_attendance(attendance_data, g, user_mention)
    /\ UNCHANGED <<attVars, musicVars, playerVars, guildVars>>

SpecStats == InitStats /\ [][ShowAttendance]_vars

\* ------------------------------------------- the queue engine on its own
\* One call of a queue method: the object after it and what the call returned
\* (ret for a song or None, flag for a boolean); old is the queue a
\* toggle_shuffle() or clear() call found, cur the current song a next() call
\* found.
Called(op, q, ret, flag) ==
    /\ mq' = q
    /\ mlast' = [op |-> op, ret |-> ret, flag |-> flag,
                 old |-> IF op \in {"toggle_shuffle", "clear"} THEN mq.queue ELSE <<>>,
                 cur |-> IF op = "next" THEN mq.current ELSE NoSong]
    /\ UNCHANGED <<attVars, report, guildVars, playerVars>>

AddSong ==
    /\ nadded < MaxSongs
    /\ nadded' = nadded + 1
    /\ Called("add", add(mq, nadded + 1), NoSong, FALSE)
    /\ UNCHANGED calls

NextSong ==
    /\ calls < MaxCalls
    /\ calls' = calls + 1
    /\ \E pick \in Picks(mq) :
        LET r == next(mq, pick) IN Called("next", r.q, r.ret, FALSE)
    /\ UNCHANGED nadded

\* The remove command counts queue positions from 1.
remove_song(index) ==
    /\ LET r == remove(mq, index - 1) IN Called("remove", r.q, r.ret, FALSE)
    /\ UNCHANGED <<nadded, calls>>

RemoveSong == \E index \in 0..(Len(mq.queue) + 1) : remove_song(index)

MoveSong ==
    /\ \E from_index \in -1..Len(mq.queue), to_index \in -1..Len(mq.queue) :
        LET r == move(mq, from_index, to_index) IN Called("move", r.q, NoSong, r.ret)
    /\ UNCHANGED <<nadded, calls>>

ToggleShuffle ==
    /\ \E shuffled \in Shuffles(mq.queue) :
        LET r == toggle_shuffle(mq, shuffled) IN
        Called("toggle_shuffle", r.q, NoSong, r.ret)
    /\ UNCHANGED <<nadded, calls>>

SetLoopMode ==
    /\ \E mode \in ModeInputs :
        LET r == set_loop_mode(mq, mode) IN Called("set_loop_mode", r.q, NoSong, r.ret)
    /\ UNCHANGED <<nadded, calls>>

ClearQueue ==
    /\ Called("clear", clear(mq), NoSong, FALSE)
    /\ UNCHANGED <<nadded, calls>>

NextQueue ==
    \/ AddSong \/ NextSong \/ RemoveSong \/ MoveSong
    \/ ToggleShuffle \/ SetLoopMode \/ ClearQueue

SpecQueue == Init /\ [][NextQueue]_vars

\* The queue with loop mode left off: songs are added, played, removed and
\* shuffle is switched on and off.
NextShuffle == AddSong \/ NextSong \/ RemoveSong \/ ToggleShuffle

SpecShuffle == Init /\ [][NextShuffle]_vars

\* ------------------------------------------------ a playlist played through
\* A playlist is enqueued and a loop mode chosen, then song after song ends;
\* with loop mode off more songs arrive while earlier ones still wait.
PlaylistAdd ==
    /\ calls = 0 \/ (mq.loop_mode = "off" /\ mq.queue # <<>>)
    /\ nadded < MaxPlaylist
    /\ nadded' = nadded + 1
    /\ Called("add", add(mq, nadded + 1), NoSong, FALSE)
    /\ UNCHANGED calls

PlaylistLoop ==
    /\ calls = 0
    /\ \E mode \in LoopModes :
        LET r == set_loop_mode(mq, mode) IN Called("set_loop_mode", r.q, NoSong, r.ret)
    /\ UNCHANGED <<nadded, calls>>

PlaylistNext ==
    /\ calls < MaxPlaylistCalls
    /\ calls' = calls + 1
    /\ \E pick \in Picks(mq) :
        LET r == next(mq, pick) IN Called("next", r.q, r.ret, FALSE)
    /\ UNCHANGED nadded

NextPlaylist == PlaylistAdd \/ PlaylistLoop \/ PlaylistNext

SpecPlaylist == Init /\ [][NextPlaylist]_vars

\* ------------------------------------------------- the playback commands
\* One guild's queue and voice client. A coroutine runs from one await that
\* suspends it to the next; each action below is one such run.
NoError == "None"

\* The after callback handed to voice_client.play(): without an error it
\* schedules one play_next on the event loop, with an error it only logs.
\* via records what ended the track.
afterTwice(e, via) == <<via, via>>

after(e, via) == IF e = NoError THEN <<via>> ELSE <<>>

\* voice_client.play(source): refused with ClientException("Already playing
\* audio.") while the client is playing.
play(v, source) ==
    IF v # NoSong THEN [voice |-> v, raised |-> TRUE]
                  ELSE [voice |-> source, raised |-> FALSE]

\* guild_id in music_queues: on_ready has given the guild its queue before
\* the first command is handled (in a guild joined later the first play
\* command creates it, and the commands before it change nothing).
QueueExists == TRUE

\* plast.stopped: a stop command has been given and no play command has
\* begun or found its source since.
Stepped(op, song, via, e) ==
    plast' = [op |-> op, song |-> song, via |-> via, e |-> e,
              stopped |-> IF op = "stop" THEN TRUE
                          ELSE IF op \in {"play", "queued"} THEN FALSE
                          ELSE plast.stopped]

\* play_next(ctx) from its start to its first await: one next() call on the
\* queue q it finds; a returned song waits in ctx.send() for the "Now
\* Playing" message, None sends "Queue Empty".
play_next(q, op, via) ==
    /\ calls < MaxPlayerCalls
    /\ calls' = calls + 1
    /\ \E pick \in Picks(q) :
        LET r == next(q, pick) IN
        /\ mq' = r.q
        /\ mlast' = [op |-> "next", ret |-> r.ret, flag |-> FALSE,
                     old |-> <<>>, cur |-> q.current]
        /\ sending' = IF r.ret # NoSong THEN Append(sending, r.ret) ELSE sending
        /\ Stepped(op, r.ret, via, NoError)

\* play_music up to the search for the source: the queue is created and the
\* voice client connected.
play_music_begins ==
    /\ nadded + loading < MaxSongs
    /\ loading' = loading + 1
    /\ plast' = [plast EXCEPT !.stopped = FALSE]
    /\ UNCHANGED <<attVars, report, guildVars, musicVars, voice, pending, sending>>

\* play_music once the source is found: the song is added and, with nothing
\* playing, play_next is awaited, which runs on in the same step.
play_music_loaded ==
    /\ loading > 0
    /\ loading' = loading - 1
    /\ nadded' = nadded + 1
    /\ IF voice = NoSong
       THEN play_next(add(mq, nadded + 1), "play", "none")
       ELSE /\ mq' = add(mq, nadded + 1)
            /\ mlast' = [op |-> "add", ret |-> NoSong, flag |-> FALSE,
                         old |-> <<>>, cur |-> NoSong]
            /\ Stepped("queued", nadded + 1, "none", NoError)
            /\ UNCHANGED <<calls, sending>>
    /\ UNCHANGED <<attVars, report, guildVars, voice, pending>>

\* A play_next scheduled by an after callback starts to run.
play_next_callback ==
    /\ pending # <<>>
    /\ pending' = Tail(pending)
    /\ play_next(mq, "callback", Head(pending))
    /\ UNCHANGED <<attVars, report, guildVars, nadded, loading, voice>>

\* A play_next comes back from ctx.send() and hands its song to the voice
\* client; a refusal is caught and logged.
play_next_resumes ==
    /\ \E i \in 1..Len(sending) :
        LET r == play(voice, sending[i]) IN
        /\ sending' = PopIndex(sending, i - 1)
        /\ voice' = r.voice
        /\ Stepped(IF r.raised THEN "refused" ELSE "started", sending[i],
                   "none", NoError)
    /\ UNCHANGED <<attVars, report, guildVars, musicVars, loading, pending>>

\* The stream of the playing song ends, by itself or with a player error,
\* and the player thread calls after(e).
track_ends ==
    /\ voice # NoSong
    /\ voice' = NoSong
    /\ \E e \in {NoError, "error"} :
        /\ pending' = pending \o after(e, "end")
        /\ Stepped("end", voice, "none", e)
    /\ UNCHANGED <<attVars, report, guildVars, musicVars, loading, sending>>

\* The skip command: voice_client.stop() ends the player, whose thread calls
\* after(None); with nothing playing the command only answers.
skip_song ==
    /\ IF voice = NoSong
       THEN UNCHANGED <<voice, pending>>
       ELSE /\ voice' = NoSong
            /\ pending' = pending \o after(NoError, "skip")
    /\ Stepped("skip", voice, "none", NoError)
    /\ UNCHANGED <<attVars, report, guildVars, musicVars, loading, sending>>

\* The loop and shuffle commands answer "No music queue found!" in a guild
\* without a queue.
loop_command == QueueExists /\ SetLoopMode

shuffle_command == QueueExists /\ ToggleShuffle

NextPlayer ==
    \/ play_music_begins \/ play_music_loaded
    \/ play_next_callback \/ play_next_resumes
    \/ track_ends \/ skip_song
    \/ loop_command \/ shuffle_command

SpecPlayer == Init /\ [][NextPlayer]_vars

\* The stop command: the queue is cleared and voice_client.stop() ends the
\* player, whose thread calls after(None).
stop_music ==
    /\ IF QueueExists
       THEN /\ mq' = clear(mq)
            /\ mlast' = [op |-> "clear", ret |-> NoSong, flag |-> FALSE,
                         old |-> mq.queue, cur |-> NoSong]
       ELSE UNCHANGED <<mq, mlast>>
    /\ IF voice = NoSong
       THEN UNCHANGED <<voice, pending>>
       ELSE /\ voice' = NoSong
            /\ pending' = pending \o after(NoError, "stop")
    /\ Stepped("stop", voice, "none", NoError)
    /\ UNCHANGED <<attVars, report, guildVars, nadded, calls, loading, sending>>

\* Play, loop and stop commands and the callback chain.
NextStop ==
    \/ play_music_begins \/ play_music_loaded
    \/ play_next_callback \/ play_next_resumes
    \/ track_ends \/ loop_command \/ stop_music

SpecStop == Init /\ [][NextStop]_vars

\* Play and skip commands and the callback chain: loop mode and shuffle stay
\* off. The event loop runs every scheduled play_next, every ctx.send()
\* comes back and every stream comes to an end.
NextDrain ==
    \/ play_music_begins \/ play_music_loaded
    \/ play_next_callback \/ play_next_resumes
    \/ track_ends \/ skip_song

SpecDrain ==
    /\ Init
    /\ [][NextDrain]_vars
    /\ WF_vars(play_next_callback)
    /\ WF_vars(play_next_resumes)
    /\ WF_vars(track_ends)

\* ------------------------------------------------- several guilds at once
\* AdvancedMusicQueue(): the constructor builds a new object with deques of
\* its own; the reference it returns is the object's position in objects.
AdvancedMusicQueueShared(objs) == 1

AdvancedMusicQueue(objs) == Len(objs) + 1

Constructed(objs, ref) == IF ref > Len(objs) THEN Append(objs, NewQueue) ELSE objs

\* if guild_id not in music_queues: music_queues[guild_id] = AdvancedMusicQueue()
EnsureQueue(st, g) ==
    IF g \in DOMAIN st.music_queues THEN st
    ELSE LET ref == AdvancedMusicQueue(st.objects) IN
         [music_queues |-> st.music_queues @@ (g :> ref),
          objects |-> Constructed(st.objects, ref)]

RECURSIVE EnsureQueues(_, _)
EnsureQueues(st, gs) ==
    IF gs = {} THEN st
    ELSE LET g == CHOOSE x \in gs : TRUE IN EnsureQueues(EnsureQueue(st, g), gs \ {g})

\* music_queues[g], the object itself.
QueueAt(mqs, objs, g) == objs[mqs[g]]

GuildState == [music_queues |-> music_queues, objects |-> objects]

\* One operation on the queue of guild g: the method's result q is the new
\* state of the object music_queues[g] refers to.
GuildCalled(op, g, st, q) ==
    /\ glast.n < MaxGuildOps
    /\ music_queues' = st.music_queues
    /\ objects' = [st.objects EXCEPT ![st.music_queues[g]] = q]
    /\ glast' = [op |-> op, g |-> g, n |-> glast.n + 1]
    /\ UNCHANGED <<attVars, musicVars, report, playerVars>>

\* on_ready gives every guild the bot is in a queue, unless it has one.
on_ready ==
    /\ glast.n < MaxGuildOps
    /\ \E guilds \in SUBSET Guilds :
        LET st == EnsureQueues(GuildState, guilds) IN
        /\ music_queues' = st.music_queues
        /\ objects' = st.objects
    /\ glast' = [op |-> "ready", g |-> "none", n |-> glast.n + 1]
    /\ UNCHANGED <<attVars, musicVars, report, playerVars>>

\* The play command in guild g creates the queue if there is none and adds
\* the song it found.
GuildPlay ==
    \E g \in Guilds :
        LET st == EnsureQueue(GuildState, g) IN
        GuildCalled("play", g, st,
                    add(QueueAt(st.music_queues, st.objects, g), glast.n + 1))

\* play_next in guild g takes the next song of that guild's queue.
GuildPlayNext ==
    \E g \in DOMAIN music_queues :
        \E pick \in Picks(QueueAt(music_queues, objects, g)) :
            GuildCalled("next", g, GuildState,
                        next(QueueAt(music_queues, objects, g), pick).q)

\* The loop, shuffle and clear commands do nothing in a guild without a
\* queue ("No music queue found!").
GuildLoop ==
    \E g \in DOMAIN music_queues, mode \in ModeInputs :
        GuildCalled("loop", g, GuildState,
                    set_loop_mode(QueueAt(music_queues, objects, g), mode).q)

GuildShuffle ==
    \E g \in DOMAIN music_queues :
        \E shuffled \in Shuffles(QueueAt(music_queues, objects, g).queue) :
            GuildCalled("shuffle", g, GuildState,
                        toggle_shuffle(QueueAt(music_queues, objects, g), shuffled).q)

GuildClear ==
    \E g \in DOMAIN music_queues :
        GuildCalled("clear", g, GuildState, clear(QueueAt(music_queues, objects, g)))

\* A voice-state event, in any guild.
GuildEvent == now < MaxGuildEvents /\ Next

NextGuilds ==
    \/ GuildEvent \/ on_ready
    \/ GuildPlay \/ GuildPlayNext \/ GuildLoop \/ GuildShuffle \/ GuildClear

SpecGuilds == Init /\ [][NextGuilds]_vars

\* ------------------------------------------------------------- properties
Sess(m) == SessionsOf(attendance_data, m[1], m[2])

OpenIdx(ss) == {i \in 1..Len(ss) : ss[i].leave_time = None}

ClosedIdx(ss) == {i \in 1..Len(ss) : ss[i].leave_time # None}

MatchIdx(ss, c) == {i \in OpenIdx(ss) : ss[i].channel_id = c}

MaxOf(I) == CHOOSE i \in I : \A j \in I : i >= j

Tracked(data) == {m \in Members : m[1] \in DOMAIN data /\ m[2] \in DOMAIN data[m[1]]}

\* C1: every user in every guild has at most one session whose leave_time
\* is null, whatever voice-state events have been handled.
C1_AtMostOneOpen ==
    \A m \in Members : Cardinality(OpenIdx(Sess(m))) <= 1

\* C2: for each user the number of sessions with a non-null leave_time
\* equals the number of close operations completed so far.
C2_ClosedEqualsCloses ==
    \A m \in Members : Cardinality(ClosedIdx(Sess(m))) = closes[m[1]][m[2]]

C2_Witness ==
    \E m \in Members :
        /\ m = <<last.g, last.u>>
        /\ last.kind \in {"leave", "switch"}
        /\ last.closed # 0
        /\ closes[m[1]][m[2]] >= 1
        /\ \E i \in ClosedIdx(Sess(m)) : Sess(m)[i].leave_time = IsoFormat(now)

\* C3: two sessions of one user never overlap: the earlier one is closed,
\* and closed no later than the later one is opened.
C3_NoOverlap ==
    \A m \in Members : \A i, j \in 1..Len(Sess(m)) :
        i < j => /\ Sess(m)[i].leave_time # None
                 /\ FromIsoFormat(Sess(m)[i].leave_time)
                        <= FromIsoFormat(Sess(m)[j].join_time)

\* C4: a leave that finds an open session of the previous channel closes
\* the most recent such session and only that one: leave_time becomes the
\* event timestamp, duration the timestamp minus join_time, and every other
\* session of every user stays as it was.
C4_LeaveClosesMostRecent ==
    [][(last'.kind = "leave") =>
       \A m \in Members, c \in Channels :
         (on_voice_state_update(m[1], m[2], c, NoChannel, "ok")
            /\ MatchIdx(Sess(m), c) # {})
         => LET ss  == Sess(m)
                ssp == SessionsOf(attendance_data', m[1], m[2])
                k   == MaxOf(MatchIdx(ss, c))
            IN /\ Len(ssp) = Len(ss)
               /\ ssp[k].leave_time = IsoFormat(now')
               /\ Len(ssp[k].duration) = 4
               /\ DurationSeconds(ssp[k].duration)
                      = now' - FromIsoFormat(ss[k].join_time)
               /\ ssp[k].channel_id = ss[k].channel_id
               /\ ssp[k].channel_name = ss[k].channel_name
               /\ ssp[k].join_time = ss[k].join_time
               /\ \A i \in 1..Len(ss) : i # k => ssp[i] = ss[i]
               /\ \A o \in Members \ {m} :
                      SessionsOf(attendance_data', o[1], o[2]) = Sess(o)
      ]_vars

C4_Witness ==
    \E m \in Members :
        /\ m = <<last.g, last.u>>
        /\ last.kind = "leave"
        /\ last.closed = 2
        /\ Len(Sess(m)) = 2
        /\ Sess(m)[1].leave_time = None
        /\ Sess(m)[1].channel_id = Sess(m)[2].channel_id
        /\ Sess(m)[2].leave_time = IsoFormat(now)
        /\ Sess(m)[2].join_time # IsoFormat(now)

\* C5: a join appends exactly one session at the end of the user's list,
\* in the next channel, joined at the event timestamp, with leave_time and
\* duration null; the sessions that existed are unchanged.
C5_JoinAppendsOpenSession ==
    [][(last'.kind = "join") =>
       \A m \in Members, c \in Channels :
         on_voice_state_update(m[1], m[2], NoChannel, c, "ok")
         => LET ss  == Sess(m)
                ssp == SessionsOf(attendance_data', m[1], m[2])
            IN /\ Len(ssp) = Len(ss) + 1
               /\ \A i \in 1..Len(ss) : ssp[i] = ss[i]
               /\ ssp[Len(ssp)].channel_id = c
               /\ ssp[Len(ssp)].join_time = IsoFormat(now')
               /\ ssp[Len(ssp)].leave_time = None
               /\ ssp[Len(ssp)].duration = None
               /\ \A o \in Members \ {m} :
                      SessionsOf(attendance_data', o[1], o[2]) = Sess(o)
      ]_vars

C5_Witness ==
    \E m \in Members :
        /\ m = <<last.g, last.u>>
        /\ last.kind = "join"
        /\ Len(Sess(m)) = 2
        /\ Sess(m)[1].join_time # IsoFormat(now)
        /\ Sess(m)[2].join_time = IsoFormat(now)
        /\ Sess(m)[2].leave_time = None
        /\ Sess(m)[2].channel_id # Sess(m)[1].channel_id

\* C6: a switch closes the most recent open session of the previous channel
\* (when there is one) and appends an open session of the next channel with
\* the same timestamp: the closed session's leave_time equals the join_time
\* of the new session, which is the last element of the list.
C6_SwitchClosesThenOpens ==
    [][(last'.kind = "switch") =>
       \A m \in Members, b \in Channels, a \in Channels :
         (a # b /\ on_voice_state_update(m[1], m[2], b, a, "ok"))
         => LET ss  == Sess(m)
                ssp == SessionsOf(attendance_data', m[1], m[2])
                new == ssp[Len(ssp)]
                I   == MatchIdx(ss, b)
            IN /\ Len(ssp) = Len(ss) + 1
               /\ new.channel_id = a
               /\ new.join_time = IsoFormat(now')
               /\ new.leave_time = None
               /\ new.duration = None
               /\ I # {} => /\ ssp[MaxOf(I)].leave_time = new.join_time
                            /\ ssp[MaxOf(I)].duration # None
               /\ \A i \in 1..Len(ss) :
                      (I = {} \/ i # MaxOf(I)) => ssp[i] = ss[i]
      ]_vars

C6_Witness ==
    \E m \in Members :
        /\ m = <<last.g, last.u>>
        /\ last.kind = "switch"
        /\ last.closed = 1
        /\ Len(Sess(m)) = 2
        /\ Sess(m)[1].leave_time = Sess(m)[2].join_time
        /\ Sess(m)[1].join_time # Sess(m)[1].leave_time
        /\ Sess(m)[2].leave_time = None
        /\ Sess(m)[2].channel_id # Sess(m)[1].channel_id

\* C7 as stated: an update whose previous and next channel are the same
\* leaves the session store exactly as it was.
C7_SameChannelNoOp ==
    [][\A m \in Members, c \in Channels :
         on_voice_state_update(m[1], m[2], c, c, "ok")
         => attendance_data' = attendance_data
      ]_vars

\* C7 as amended: an update whose previous and next channel are the same
\* opens and closes no session and leaves every existing record as it was;
\* its only change to the store is the record, with an empty session list,
\* that it creates for a user who was not tracked yet.
C7_SameChannelKeepsSessions ==
    [][\A m \in Members, c \in Channels :
         on_voice_state_update(m[1], m[2], c, c, "ok")
         => /\ Tracked(attendance_data') = Tracked(attendance_data) \cup {m}
            /\ \A o \in Tracked(attendance_data) :
                   attendance_data'[o[1]][o[2]] = attendance_data[o[1]][o[2]]
            /\ \A o \in Members :
                   SessionsOf(attendance_data', o[1], o[2]) = Sess(o)
      ]_vars

C7_Witness ==
    \E m \in Members :
        /\ m = <<last.g, last.u>>
        /\ last.kind = "same"
        /\ Len(Sess(m)) = 2
        /\ OpenIdx(Sess(m)) # {}
        /\ ClosedIdx(Sess(m)) # {}

\* C8: a leave that finds no open session of the previous channel creates
\* no session, modifies no session and completes without raising.
C8_UnmatchedLeaveSkipped ==
    [][(last'.kind = "leave") =>
       \A m \in Members, c \in Channels :
         (on_voice_state_update(m[1], m[2], c, NoChannel, "ok")
            /\ MatchIdx(Sess(m), c) = {})
         => /\ \A o \in Members :
                   SessionsOf(attendance_data', o[1], o[2]) = Sess(o)
            /\ \A o \in Tracked(attendance_data) :
                   attendance_data'[o[1]][o[2]] = attendance_data[o[1]][o[2]]
            /\ ~last'.raised
            /\ last'.closed = 0
      ]_vars

C8_Witness ==
    \E m \in Members :
        /\ m = <<last.g, last.u>>
        /\ last.kind = "leave"
        /\ last.closed = 0
        /\ ~last.raised
        /\ Len(Sess(m)) = 2
        /\ \A i \in 1..2 : Sess(m)[i].leave_time # IsoFormat(now)
        /\ OpenIdx(Sess(m)) # {}
        /\ ClosedIdx(Sess(m)) # {}

\* C9: a user's session list only grows by appending: a tracked user stays
\* tracked, existing sessions keep their position, channel and join_time,
\* and a session whose leave_time is set never changes again.
C9_SessionsAppendOnly ==
    [][\A m \in Tracked(attendance_data) :
         LET ss  == Sess(m)
             ssp == SessionsOf(attendance_data', m[1], m[2])
         IN /\ m \in Tracked(attendance_data')
            /\ Len(ssp) >= Len(ss)
            /\ \A i \in 1..Len(ss) :
                  /\ ssp[i].channel_id = ss[i].channel_id
                  /\ ssp[i].channel_name = ss[i].channel_name
                  /\ ssp[i].join_time = ss[i].join_time
                  /\ ss[i].leave_time # None => ssp[i] = ss[i]
      ]_vars

C9_Witness ==
    \E m \in Members :
        /\ m = <<last.g, last.u>>
        /\ last.kind = "leave"
        /\ last.closed = 2
        /\ Len(Sess(m)) = 2
        /\ ClosedIdx(Sess(m)) = {1, 2}
        /\ Sess(m)[1].channel_id = Sess(m)[2].channel_id
        /\ Sess(m)[2].leave_time = IsoFormat(now)
        /\ Sess(m)[1].leave_time # IsoFormat(now)

\* C10: when handling an event raises, the in-memory session store is left
\* exactly as it was before the event.
C10_ErrorLeavesStoreUnchanged ==
    [][\A m \in Members, b \in Channels \cup {NoChannel},
          a \in Channels \cup {NoChannel} :
         (on_voice_state_update(m[1], m[2], b, a, "ok") /\ last'.raised)
         => attendance_data' = attendance_data
      ]_vars

\* C11: once an event has been handled, the store last written to disk is
\* the in-memory store (every event ends with a write of the whole store,
\* made after the mutation).
C11_WrittenEqualsMemory ==
    last.kind # "none" => file = attendance_data

\* C13: with loop mode off and shuffle off the queue is first in, first out:
\* the k-th next() returns the k-th song enqueued, the songs enqueued after it
\* wait in their order, and the history holds the songs before it in the
\* order they were played (the last 50 of them).
PlayedBefore(k) ==
    LET n == IF k - 1 < HistoryMaxLen THEN k - 1 ELSE HistoryMaxLen
    IN [i \in 1..n |-> i + (k - 1 - n)]

C13_FifoOrder ==
    (mq.loop_mode = "off" /\ ~mq.shuffle /\ 1 <= calls /\ calls <= nadded)
    => /\ mq.current = calls
       /\ mlast.op = "next" => mlast.ret = calls
       /\ mq.queue = [i \in 1..(nadded - calls) |-> calls + i]
       /\ mq.history = PlayedBefore(calls)

C13_Witness ==
    /\ nadded = 3 /\ calls = 3
    /\ mq.loop_mode = "off"
    /\ mlast.op = "next" /\ mlast.ret = 3
    /\ mq.current = 3
    /\ mq.queue = <<>>
    /\ mq.history = <<1, 2>>

\* C14: when next() reports that nothing is left (it returns None) the engine
\* is idle: current is None and the queue is empty.
C14_IdleAfterNothingLeft ==
    (mlast.op = "next" /\ mlast.ret = NoSong)
    => (mq.current = NoSong /\ mq.queue = <<>>)

\* C15: under loop mode "song" with a current song, next() returns that song
\* and changes nothing: queue, history, stored order and current stay.
C15_ReplayChangesNothing ==
    [][(mlast'.op = "next" /\ calls' = calls + 1
        /\ mq.loop_mode = "song" /\ mq.current # NoSong)
       => (mq' = mq /\ mlast'.ret = mq.current)
      ]_vars

C15_Witness ==
    /\ mlast.op = "next"
    /\ mq.loop_mode = "song"
    /\ mlast.cur # NoSong
    /\ mlast.ret = mlast.cur
    /\ mq.current = mlast.cur
    /\ mq.queue # <<>>

\* C16: under loop mode "queue" with shuffle off, next() calls replay the
\* enqueued songs in their order cycle after cycle and lose none: with n songs
\* enqueued the k-th call returns song ((k - 1) mod n) + 1.
C16_CycleKeepsEverySong ==
    (mq.loop_mode = "queue" /\ ~mq.shuffle /\ mlast.op = "next" /\ nadded >= 1)
    => mlast.ret = ((calls - 1) % nadded) + 1

\* C17: a next() call that does not replay under loop mode "song" appends
\* the current song, if there is one, to the end of the history; the history
\* never holds more than 50 songs, and an append to a full history drops
\* exactly the oldest song and keeps the others in order.  (When the same
\* call refills the queue under loop mode "queue", the songs so recorded are
\* what it refills the queue with.)
C17_HistoryAppendEvictsOldest ==
    [][(mlast'.op = "next" /\ calls' = calls + 1
        /\ ~(mq.loop_mode = "song") /\ mq.current # NoSong)
       => LET appended == IF Len(mq.history) < 50
                          THEN Append(mq.history, mq.current)
                          ELSE Append(Tail(mq.history), mq.current)
          IN /\ Len(mq.history) <= 50
             /\ Len(mq'.history) <= 50
             /\ IF mq.loop_mode = "queue" /\ mq.queue = <<>>
                THEN /\ mq'.history = <<>>
                     /\ ~mq.shuffle => <<mq'.current>> \o mq'.queue = appended
                ELSE mq'.history = appended
      ]_vars

C17_Witness ==
    /\ mlast.op = "next"
    /\ mlast.cur = 51
    /\ Len(mq.history) = 50
    /\ mq.history[1] = 2
    /\ mq.history[49] = 50
    /\ mq.history[50] = 51

\* C18: turning shuffle off restores the stored order: when an order is
\* stored the queue becomes exactly that order and the store is emptied,
\* otherwise the queue keeps its order; turning shuffle on and straight off
\* again gives back the queue as it was before.
C18_DisableRestoresStoredOrder ==
    [][(mlast'.op = "toggle_shuffle" /\ mq.shuffle)
       => /\ mq'.queue = IF mq.original_queue # <<>> THEN mq.original_queue
                         ELSE mq.queue
          /\ mq'.original_queue = <<>>
          /\ mlast.op = "toggle_shuffle" => mq'.queue = mlast.old
      ]_vars

C18_Witness ==
    /\ mlast.op = "toggle_shuffle"
    /\ ~mq.shuffle
    /\ mlast.old = <<2, 1>>
    /\ mq.queue = <<1, 2>>
    /\ mq.original_queue = <<>>

\* C19: toggle_shuffle() flips the shuffle flag and returns its new value;
\* when it turns shuffle on, the stored order is the queue exactly as the call
\* found it and the queue it leaves is a permutation of that.
Occurrences(s, x) == Cardinality({i \in 1..Len(s) : s[i] = x})

IsPermutation(s, t) ==
    /\ Len(s) = Len(t)
    /\ \A i \in 1..Len(s) : Occurrences(s, s[i]) = Occurrences(t, s[i])

C19_ToggleShuffleStoresOrder ==
    [][mlast'.op = "toggle_shuffle"
       => /\ mq'.shuffle = ~mq.shuffle
          /\ mlast'.flag = mq'.shuffle
          /\ mq'.shuffle => /\ mq'.original_queue = mq.queue
                            /\ IsPermutation(mq'.queue, mq.queue)
      ]_vars

C19_Witness ==
    /\ mlast.op = "toggle_shuffle"
    /\ mq.shuffle /\ mlast.flag
    /\ mlast.old = <<1, 2>>
    /\ mq.original_queue = <<1, 2>>
    /\ mq.queue = <<2, 1>>

\* C20: a next() call that finds songs queued (and does not replay under loop
\* mode "song") takes one of them: with shuffle on, current becomes some song
\* of the queue, one occurrence of it leaves the queue and the others keep
\* their order; with shuffle off, the head leaves the queue and is returned.
C20_NextTakesOneSong ==
    [][(mlast'.op = "next" /\ calls' = calls + 1
        /\ ~(mq.loop_mode = "song" /\ mq.current # NoSong)
        /\ mq.queue # <<>>)
       => IF mq.shuffle
          THEN \E i \in 1..Len(mq.queue) :
                  /\ mq'.current = mq.queue[i]
                  /\ mlast'.ret = mq.queue[i]
                  /\ mq'.queue = SubSeq(mq.queue, 1, i - 1)
                                 \o SubSeq(mq.queue, i + 1, Len(mq.queue))
          ELSE /\ mq'.current = Head(mq.queue)
               /\ mlast'.ret = Head(mq.queue)
               /\ mq'.queue = Tail(mq.queue)
      ]_vars

C20_Witness ==
    /\ mlast.op = "next"
    /\ mq.shuffle
    /\ mq.original_queue = <<1, 2>>
    /\ mlast.ret = 2 /\ mq.current = 2
    /\ mq.queue = <<1>>

\* C21: add(song) puts the song at the tail of the queue and leaves the songs
\* before it as they were; with shuffle on and no order stored, the stored
\* order becomes the queue (as it is with the new song); otherwise the stored
\* order stays as it is.
C21_AddAppendsAtTail ==
    [][(mlast'.op = "add" /\ nadded' = nadded + 1)
       => /\ mq'.queue = Append(mq.queue, nadded')
          /\ mq'.original_queue = IF mq.shuffle /\ mq.original_queue = <<>>
                                  THEN Append(mq.queue, nadded')
                                  ELSE mq.original_queue
          /\ mq'.history = mq.history /\ mq'.current = mq.current
      ]_vars

C21_Witness ==
    /\ mlast.op = "add"
    /\ nadded = 1
    /\ mq.shuffle
    /\ mq.queue = <<1>>
    /\ mq.original_queue = <<1>>

\* C22: remove(index) with a 0-based index below 0 or at or beyond the queue
\* length returns None and leaves the queue as it is; with an index inside
\* the queue it returns the song at that position, and the queue is the old
\* queue without that position.
C22_RemoveChecksIndex ==
    [][\A index \in 0..(Len(mq.queue) + 1) :
          remove_song(index)
          => LET i == index - 1 IN
             IF i < 0 \/ i >= Len(mq.queue)
             THEN mlast'.ret = NoSong /\ mq' = mq
             ELSE /\ mlast'.ret = mq.queue[i + 1]
                  /\ mq'.queue = SubSeq(mq.queue, 1, i)
                                 \o SubSeq(mq.queue, i + 2, Len(mq.queue))
                  /\ mq' = [mq EXCEPT !.queue = mq'.queue]
      ]_vars

C22_Witness ==
    /\ mlast.op = "remove"
    /\ mlast.ret = NoSong
    /\ Len(mq.queue) = 2

\* C23: clear() leaves the queue, the history and the stored order empty and
\* current None, all in the one step.
C23_ClearResetsAllFour ==
    [][mlast'.op = "clear"
       => /\ mq'.queue = <<>>
          /\ mq'.history = <<>>
          /\ mq'.original_queue = <<>>
          /\ mq'.current = NoSong
      ]_vars

C23_Witness ==
    /\ mlast.op = "clear"
    /\ mlast.old # <<>>
    /\ calls = 2
    /\ mq.queue = <<>> /\ mq.history = <<>> /\ mq.original_queue = <<>>
    /\ mq.current = NoSong

\* C29: with loop mode off, toggle_shuffle() keeps the set of waiting songs:
\* it drops no song that waits in the queue and puts back no song that has
\* been played or removed.
SongsIn(s) == {s[i] : i \in 1..Len(s)}

C29_ShuffleKeepsWaitingSongs ==
    [][mlast'.op = "toggle_shuffle" => SongsIn(mq'.queue) = SongsIn(mq.queue)]_vars

\* C25: for a tracked user with no sessions the attendance report is
\* rendered, from statistics in which every field is present and zero.
C25_EmptyStatsRendered ==
    \A m \in Tracked(attendance_data) :
        (report.guild = m[1] /\ report.user = m[2] /\ Sess(m) = <<>>)
        => /\ report.outcome = "report"
           /\ ReportKeys \subseteq DOMAIN report.stats
           /\ report.stats.total_sessions = 0
           /\ report.stats.completed_sessions = 0
           /\ report.stats.active_sessions = 0
           /\ report.stats.total_time = <<0, "s">>
           /\ report.stats.avg_session = <<0, "s">>
           /\ report.stats.longest_session = <<0, "s">>

DurationsOf(ss) ==
    LET I == {i \in 1..Len(ss) : ss[i].duration # None}
    IN [i \in I |-> DurationSeconds(ss[i].duration)]

MaxValue(f) == CHOOSE x \in {f[i] : i \in DOMAIN f} : \A i \in DOMAIN f : x >= f[i]

C27_StatsSumMeanMax ==
    \A m \in Tracked(attendance_data) :
        (report.guild = m[1] /\ report.user = m[2] /\ report.outcome = "report"
         /\ DOMAIN DurationsOf(Sess(m)) # {})
        => LET d == DurationsOf(Sess(m)) IN
           /\ report.stats.total_time = FormatSeconds(SumValues(d))
           /\ report.stats.avg_session
                 = FormatSeconds(SumValues(d) \div Cardinality(DOMAIN d))
           /\ report.stats.longest_session = FormatSeconds(MaxValue(d))
           /\ (Len(Sess(m)) = 3 /\ d = <<10, 20, 30>>)
              => /\ report.stats.total_time = <<1, "m">>
                 /\ report.stats.avg_session = <<20, "s">>
                 /\ report.stats.longest_session = <<30, "s">>

\* C24: a skip command given while a song plays stops the voice client,
\* changes nothing in the queue and schedules exactly one play_next, just as
\* the end of the song's stream does; that play_next makes one next() call on
\* the queue (loop mode and shuffle honoured) and hands a returned song on to
\* be played.
C24_SkipAdvancesLikeTrackEnd ==
    [][/\ (skip_song /\ voice # NoSong)
          => /\ voice' = NoSong
             /\ pending' = Append(pending, "skip")
             /\ mq' = mq /\ calls' = calls /\ sending' = sending
       /\ (track_ends /\ plast'.e = NoError)
          => /\ voice' = NoSong
             /\ pending' = Append(pending, "end")
             /\ mq' = mq /\ calls' = calls /\ sending' = sending
       /\ play_next_callback
          => /\ pending' = Tail(pending)
             /\ calls' = calls + 1
             /\ voice' = voice
             /\ \E pick \in Picks(mq) :
                   /\ mq' = next(mq, pick).q
                   /\ sending' = IF next(mq, pick).ret # NoSong
                                 THEN Append(sending, next(mq, pick).ret)
                                 ELSE sending
      ]_vars

C24_Witness ==
    /\ plast.op = "callback"
    /\ plast.via = "skip"
    /\ plast.song = 2
    /\ mq.current = 2
    /\ mq.history = <<1>>
    /\ sending = <<2>>

\* C28: whenever the voice client is playing, the song it plays is the
\* queue's current song.
C28_PlayingIsCurrent == voice # NoSong => voice = mq.current

\* C30: the queue has run out (the last play_next found nothing and said
\* "Queue Empty"), nothing is playing or about to; a play command that then
\* adds a song makes that song current and hands it on to be played,
\* whatever the loop mode is.
RanOut ==
    /\ plast.op = "callback" /\ plast.song = NoSong
    /\ voice = NoSong /\ pending = <<>> /\ sending = <<>>
    /\ mq.queue = <<>>

C30_PlayAfterRunOutPlaysNewSong ==
    [][(RanOut /\ play_music_loaded)
       => /\ mq'.current = nadded'
          /\ sending' = <<nadded'>>
      ]_vars

\* C31: with loop mode off the callback chain does not stop while songs
\* wait in the queue: as long as the queue is not empty a song is playing, or
\* a play_next is scheduled, or a play_next is about to hand its song to the
\* voice client.
C31_ChainRunsWhilePending ==
    mq.queue # <<>> => (voice # NoSong \/ pending # <<>> \/ sending # <<>>)

\* C32: from a stop command until a play command begins or finds its source,
\* the queue, the history and the stored order are empty, current is None
\* and the voice client plays nothing, whatever the loop mode is.
C32_StoppedUntilNextPlay ==
    plast.stopped
    => /\ mq.queue = <<>> /\ mq.history = <<>> /\ mq.original_queue = <<>>
       /\ mq.current = NoSong
       /\ voice = NoSong

\* C33: every session in the store is either open, with leave_time and
\* duration both None, or closed, with both set; so for every user with
\* sessions total_sessions = completed_sessions + active_sessions.
C33_SessionsOpenOrClosed ==
    \A m \in Tracked(attendance_data) :
        /\ \A i \in 1..Len(Sess(m)) :
              (Sess(m)[i].leave_time = None) <=> (Sess(m)[i].duration = None)
        /\ Sess(m) # <<>>
           => LET stats == get_session_stats(Sess(m)) IN
              stats.total_sessions = stats.completed_sessions + stats.active_sessions

\* C34: a voice-state event of user u in guild g changes no record but that
\* of u in g: every other user's record, in g and in every other guild, stays
\* as it is, and none is created. An operation on the queue of guild g leaves
\* the queue object of every other guild as it is (queue, history, current,
\* loop mode, shuffle flag), and on_ready leaves every existing one as it is.
IsTracked(data, g, u) == g \in DOMAIN data /\ u \in DOMAIN data[g]

C34_PartitionedByGuildAndUser ==
    [][/\ now' # now
          => /\ \A g \in Guilds \ {last'.g} :
                   (g \in DOMAIN attendance_data') <=> (g \in DOMAIN attendance_data)
             /\ \A g \in Guilds, u \in Users :
                   <<g, u>> # <<last'.g, last'.u>>
                   => /\ IsTracked(attendance_data', g, u)
                         <=> IsTracked(attendance_data, g, u)
                      /\ IsTracked(attendance_data, g, u)
                         => attendance_data'[g][u] = attendance_data[g][u]
             /\ UNCHANGED guildVars
       /\ glast' # glast
          => /\ \A h \in Guilds \ {glast'.g} :
                   /\ glast'.op # "ready"
                      => ((h \in DOMAIN music_queues') <=> (h \in DOMAIN music_queues))
                   /\ h \in DOMAIN music_queues
                      => /\ h \in DOMAIN music_queues'
                         /\ QueueAt(music_queues', objects', h)
                               = QueueAt(music_queues, objects, h)
             /\ UNCHANGED attendance_data
      ]_vars

C34_Witness ==
    /\ glast.op = "play" /\ glast.g = "g2"
    /\ DOMAIN music_queues = Guilds
    /\ QueueAt(music_queues, objects, "g1").queue = <<1>>
    /\ QueueAt(music_queues, objects, "g2").queue = <<2>>
    /\ last.kind = "join" /\ last.g = "g2" /\ last.u = "u1"
    /\ IsTracked(attendance_data, "g1", "u1")
    /\ attendance_data["g1"]["u1"].sessions # <<>>

====
